---- MODULE Spec2Model ----
(***************************************************************************)
(* Model of jules-scratch/verification/verify_map.py: run() drives one     *)
(* headless browser through the Playwright sync API.  The script is a      *)
(* single thread that blocks in each library call; the browser is a        *)
(* separate process that answers over one ordered channel carrying both    *)
(* console events and call responses.                                      *)
(***************************************************************************)
EXTENDS Integers, Sequences, FiniteSets, TLC

\* ---- bounds of the model ------------------------------------------------
MaxRuns == 2          \* successive invocations of the script
MaxMsgs == 2          \* console messages a page emits in one run
MaxPageHeight == 3    \* scrollable page height, in abstract rows
TickMs == 1000        \* granularity of the wait timer
MaxAttempts == 2      \* cap of the per-statement attempt counter

\* ---- program constants ---------------------------------------------------
WaitTimeoutMs == 2000
ViewportHeight == 2     \* default viewport of browser.new_page(), in abstract rows
IndexPath == "jules-scratch/verification/index.html"
OutputPath == "jules-scratch/verification/verification.png"
Paths == {IndexPath, OutputPath}

\* the statements of run(), in program order
StepOrder ==
    <<"sync_playwright", "launch", "new_page", "on", "goto",
      "wait_for_timeout", "screenshot", "close">>
LibraryCalls == {"launch", "new_page", "goto", "wait_for_timeout", "screenshot", "close"}

\* console message texts: sequences of characters, "\n" is a line break
Texts == { <<"a">>, <<"b", "\n", "c">> }

Absent == [exists |-> FALSE, data |-> <<>>]
OldFiles == { Absent,
              [exists |-> TRUE, data |-> <<>>],
              [exists |-> TRUE, data |-> << <<0, 1>>, <<0, 2>>, <<0, 3>> >>] }

VARIABLES
    run,            \* index of the current invocation
    results,        \* exit status of the finished invocations
    fs,             \* file system: path -> [exists, data]
    fsBefore,       \* fs at the start of the current run
    pc,             \* statement of run() being executed or about to be
    busy,           \* the script is blocked inside a library call
    inflight,       \* library calls issued and not yet returned
    exc,            \* an exception is propagating out of the with-body
    failedStep,     \* the statement that raised, or "none"
    attempts,       \* how often each statement was started in this run
    done,           \* statements completed in this run, in order
    browser,        \* "none", "open", "closed"
    releases,       \* number of times the browser process was released
    observer,       \* the console handler is registered on the page
    nav,            \* page state: "blank", "loaded"
    pageHeight,     \* scrollable height of the loaded page
    channel,        \* ordered messages browser -> script
    emitted,        \* texts of the console messages emitted by the page
    emittedAtShot,  \* Len(emitted) when the screenshot was captured, or -1
    shot,           \* the image captured in this run
    stdout,         \* characters written to standard output
    waited,         \* milliseconds elapsed in wait_for_timeout
    exit            \* "running", "ok", "error"

vars == <<run, results, fs, fsBefore, pc, busy, inflight, exc, failedStep,
          attempts, done, browser, releases, observer, nav, pageHeight,
          channel, emitted, emittedAtShot, shot, stdout, waited, exit>>

\* ---- helpers --------------------------------------------------------------
Console(text) == [type |-> "console", op |-> "none", ok |-> TRUE, text |-> text, img |-> <<>>]
Resp(op, ok, img) == [type |-> "resp", op |-> op, ok |-> ok, text |-> <<>>, img |-> img]

HasResp(op) == \E i \in 1..Len(channel) : channel[i].type = "resp" /\ channel[i].op = op

\* the browser still owes an answer to call op
Pending(op) == op \in inflight /\ ~HasResp(op)

Prefix(s, k) == SubSeq(s, 1, k)
IsPrefix(s, t) == Len(s) <= Len(t) /\ Prefix(t, Len(s)) = s

\* print(f"CONSOLE: {msg.text}")
FormatLine(text) == <<"CONSOLE: ">> \o text \o <<"\n">>

\* page.screenshot(path=...): no full_page argument is passed
ScreenshotArgsFullPage == [path |-> OutputPath, full_page |-> TRUE]
ScreenshotArgs == [path |-> OutputPath, full_page |-> FALSE]

\* the rows the browser captures for the given arguments
Capture(r, args) ==
    [i \in 1..(IF args.full_page THEN pageHeight ELSE ViewportHeight) |-> <<r, i>>]

\* open(path, "wb"); write(data)
WriteFileAppend(f, data) == [exists |-> TRUE, data |-> f.data \o data]
WriteFileEmpty(f, data) == [exists |-> TRUE, data |-> <<>>]
WriteFile(f, data) == [exists |-> TRUE, data |-> data]

RunState ==
    /\ pc = "sync_playwright"
    /\ busy = FALSE
    /\ inflight = {}
    /\ exc = FALSE
    /\ failedStep = "none"
    /\ attempts = [s \in {"sync_playwright", "launch", "new_page", "on", "goto",
                           "wait_for_timeout", "screenshot", "close"} |-> 0]
    /\ done = <<>>
    /\ browser = "none"
    /\ releases = 0
    /\ observer = FALSE
    /\ nav = "blank"
    /\ pageHeight = 0
    /\ channel = <<>>
    /\ emitted = <<>>
    /\ emittedAtShot = -1
    /\ shot = <<>>
    /\ stdout = <<>>
    /\ waited = 0
    /\ exit = "running"

Init ==
    /\ run = 1
    /\ results = <<>>
    /\ fs \in [Paths -> OldFiles]
    /\ fs[IndexPath] \in {Absent, [exists |-> TRUE, data |-> <<>>]}
    /\ fsBefore = fs
    /\ RunState


\* ---- the script (verify_map.py) --------------------------------------------
NextStep(op) ==
    CASE op = "sync_playwright" -> "launch"
      [] op = "launch" -> "new_page"
      [] op = "new_page" -> "on"
      [] op = "on" -> "goto"
      [] op = "goto" -> "wait_for_timeout"
      [] op = "wait_for_timeout" -> "screenshot"
      [] op = "screenshot" -> "close"
      [] op = "close" -> "__exit__"

\* with sync_playwright() as p: the driver starts, or __enter__ raises and
\* the exception leaves run() at once (no scope was entered).
EnterScope ==
    /\ pc = "sync_playwright" /\ exit = "running"
    /\ attempts' = [attempts EXCEPT !["sync_playwright"] = @ + 1]
    /\ \/ /\ pc' = "launch"
          /\ done' = Append(done, "sync_playwright")
          /\ UNCHANGED <<exc, failedStep, exit, results>>
       \/ /\ pc' = "exited"
          /\ exc' = TRUE
          /\ failedStep' = "sync_playwright"
          /\ exit' = "error"
          /\ results' = Append(results, "error")
          /\ UNCHANGED done
    /\ UNCHANGED <<run, fs, fsBefore, busy, inflight, browser, releases,
                   observer, nav, pageHeight, channel, emitted, emittedAtShot,
                   shot, stdout, waited>>

\* a blocking library call: the request is sent and the script waits for
\* the response, running the dispatcher meanwhile
CallNoAwait(op) ==
    /\ pc = op /\ ~busy /\ exit = "running"
    /\ attempts[op] < MaxAttempts
    /\ busy' = FALSE
    /\ pc' = NextStep(op)
    /\ inflight' = inflight \cup {op}
    /\ attempts' = [attempts EXCEPT ![op] = @ + 1]
    /\ UNCHANGED <<run, results, fs, fsBefore, exc, failedStep, done, browser,
                   releases, observer, nav, pageHeight, channel, emitted,
                   emittedAtShot, shot, stdout, waited, exit>>

Call(op) ==
    /\ pc = op /\ ~busy /\ exit = "running"
    /\ attempts[op] < MaxAttempts
    /\ busy' = TRUE
    /\ inflight' = inflight \cup {op}
    /\ attempts' = [attempts EXCEPT ![op] = @ + 1]
    /\ UNCHANGED <<run, results, fs, fsBefore, pc, exc, failedStep, done,
                   browser, releases, observer, nav, pageHeight, channel,
                   emitted, emittedAtShot, shot, stdout, waited, exit>>

Launch == Call("launch")
NewPage == Call("new_page")
Goto == Call("goto")
WaitForTimeout == Call("wait_for_timeout")
Screenshot == Call("screenshot")
Close == Call("close")

\* page.on("console", handler): a local registration, no round trip
RegisterObserverWrongEvent ==
    /\ pc = "on" /\ ~busy /\ exit = "running"
    /\ attempts' = [attempts EXCEPT !["on"] = @ + 1]
    /\ observer' = FALSE
    /\ done' = Append(done, "on")
    /\ pc' = "goto"
    /\ UNCHANGED <<run, results, fs, fsBefore, busy, inflight, exc, failedStep,
                   browser, releases, nav, pageHeight, channel, emitted,
                   emittedAtShot, shot, stdout, waited, exit>>

RegisterObserver ==
    /\ pc = "on" /\ ~busy /\ exit = "running"
    /\ attempts' = [attempts EXCEPT !["on"] = @ + 1]
    /\ observer' = TRUE
    /\ done' = Append(done, "on")
    /\ pc' = "goto"
    /\ UNCHANGED <<run, results, fs, fsBefore, busy, inflight, exc, failedStep,
                   browser, releases, nav, pageHeight, channel, emitted,
                   emittedAtShot, shot, stdout, waited, exit>>

\* the dispatcher hands a console event to the registered handler, which
\* prints it; it runs only while the script is blocked in a library call
Dispatch ==
    /\ busy /\ exit = "running"
    /\ channel # <<>> /\ Head(channel).type = "console"
    /\ channel' = Tail(channel)
    /\ stdout' = IF observer THEN stdout \o FormatLine(Head(channel).text) ELSE stdout
    /\ UNCHANGED <<run, results, fs, fsBefore, pc, busy, inflight, exc,
                   failedStep, attempts, done, browser, releases, observer, nav,
                   pageHeight, emitted, emittedAtShot, shot, waited, exit>>

\* an exception raised by a library call: nothing catches it inside run(),
\* so control leaves the with-body
RaiseRetry(op) ==
    /\ exc' = FALSE
    /\ failedStep' = failedStep
    /\ busy' = FALSE
    /\ pc' = op

RaiseSwallow(op) ==
    /\ exc' = FALSE
    /\ failedStep' = op
    /\ busy' = FALSE
    /\ pc' = NextStep(op)

Raise(op) ==
    /\ exc' = TRUE
    /\ failedStep' = op
    /\ busy' = FALSE
    /\ pc' = "__exit__"

\* the response at the head of the channel answers the call the script is in
Answered(ok) ==
    /\ busy /\ exit = "running"
    /\ channel # <<>>
    /\ Head(channel).type = "resp"
    /\ Head(channel).op = pc
    /\ Head(channel).ok = ok

RaiseFromCall ==
    /\ Answered(FALSE)
    /\ channel' = Tail(channel)
    /\ inflight' = inflight \ {pc}
    /\ Raise(pc)
    /\ UNCHANGED <<run, results, fs, fsBefore, attempts, done, browser,
                   releases, observer, nav, pageHeight, emitted, emittedAtShot,
                   shot, stdout, waited, exit>>

\* launch, new_page, goto, wait_for_timeout and close return normally
Return ==
    /\ Answered(TRUE)
    /\ pc # "screenshot"
    /\ channel' = Tail(channel)
    /\ inflight' = inflight \ {pc}
    /\ busy' = FALSE
    /\ done' = Append(done, pc)
    /\ pc' = NextStep(pc)
    /\ UNCHANGED <<run, results, fs, fsBefore, exc, failedStep, attempts,
                   browser, releases, observer, nav, pageHeight, emitted,
                   emittedAtShot, shot, stdout, waited, exit>>

\* screenshot received the image and writes it to args.path
ScreenshotWritten ==
    /\ Answered(TRUE)
    /\ pc = "screenshot"
    /\ channel' = Tail(channel)
    /\ inflight' = inflight \ {pc}
    /\ fs' = [fs EXCEPT ![ScreenshotArgs.path] = WriteFile(@, Head(channel).img)]
    /\ busy' = FALSE
    /\ done' = Append(done, pc)
    /\ pc' = NextStep(pc)
    /\ UNCHANGED <<run, results, fsBefore, exc, failedStep, attempts, browser,
                   releases, observer, nav, pageHeight, emitted, emittedAtShot,
                   shot, stdout, waited, exit>>

\* the file cannot be opened for writing: nothing is written, the call raises
ScreenshotOpenFails ==
    /\ Answered(TRUE)
    /\ pc = "screenshot"
    /\ channel' = Tail(channel)
    /\ inflight' = inflight \ {pc}
    /\ Raise(pc)
    /\ UNCHANGED <<run, results, fs, fsBefore, attempts, done, browser,
                   releases, observer, nav, pageHeight, emitted, emittedAtShot,
                   shot, stdout, waited, exit>>

\* the file was opened (and so truncated) and the write stopped part-way
ScreenshotWriteFails ==
    /\ Answered(TRUE)
    /\ pc = "screenshot"
    /\ channel' = Tail(channel)
    /\ inflight' = inflight \ {pc}
    /\ \E k \in 0..(Len(Head(channel).img) - 1) :
          fs' = [fs EXCEPT ![ScreenshotArgs.path] =
                     WriteFile(@, Prefix(Head(channel).img, k))]
    /\ Raise(pc)
    /\ UNCHANGED <<run, results, fsBefore, attempts, done, browser,
                   releases, observer, nav, pageHeight, emitted, emittedAtShot,
                   shot, stdout, waited, exit>>

\* leaving the with-block, normally or by exception: the driver is stopped,
\* which ends a browser that is still running; the exception, if any,
\* continues to the top level
ExitScopeLeak ==
    /\ pc = "__exit__" /\ exit = "running"
    /\ browser' = browser
    /\ releases' = releases
    /\ channel' = <<>>
    /\ inflight' = {}
    /\ pc' = "exited"
    /\ exit' = IF exc THEN "error" ELSE "ok"
    /\ results' = Append(results, exit')
    /\ UNCHANGED <<run, fs, fsBefore, busy, exc, failedStep, attempts, done,
                   observer, nav, pageHeight, emitted, emittedAtShot, shot,
                   stdout, waited>>

ExitScopeAgain ==
    /\ pc = "__exit__" /\ exit = "running"
    /\ browser' = IF browser = "none" THEN "none" ELSE "closed"
    /\ releases' = IF browser = "none" THEN releases ELSE releases + 1
    /\ channel' = <<>>
    /\ inflight' = {}
    /\ pc' = "exited"
    /\ exit' = IF exc THEN "error" ELSE "ok"
    /\ results' = Append(results, exit')
    /\ UNCHANGED <<run, fs, fsBefore, busy, exc, failedStep, attempts, done,
                   observer, nav, pageHeight, emitted, emittedAtShot, shot,
                   stdout, waited>>

ExitScope ==
    /\ pc = "__exit__" /\ exit = "running"
    /\ browser' = IF browser = "open" THEN "closed" ELSE browser
    /\ releases' = IF browser = "open" THEN releases + 1 ELSE releases
    /\ channel' = <<>>
    /\ inflight' = {}
    /\ pc' = "exited"
    /\ exit' = IF exc THEN "error" ELSE "ok"
    /\ results' = Append(results, exit')
    /\ UNCHANGED <<run, fs, fsBefore, busy, exc, failedStep, attempts, done,
                   observer, nav, pageHeight, emitted, emittedAtShot, shot,
                   stdout, waited>>

\* if __name__ == "__main__": run() -- the script is started again
NextRun ==
    /\ pc = "exited" /\ run < MaxRuns
    /\ run' = run + 1
    /\ fsBefore' = fs
    /\ pc' = "sync_playwright"
    /\ busy' = FALSE
    /\ inflight' = {}
    /\ exc' = FALSE
    /\ failedStep' = "none"
    /\ attempts' = [s \in DOMAIN attempts |-> 0]
    /\ done' = <<>>
    /\ browser' = "none"
    /\ releases' = 0
    /\ observer' = FALSE
    /\ nav' = "blank"
    /\ pageHeight' = 0
    /\ channel' = <<>>
    /\ emitted' = <<>>
    /\ emittedAtShot' = -1
    /\ shot' = <<>>
    /\ stdout' = <<>>
    /\ waited' = 0
    /\ exit' = "running"
    /\ UNCHANGED <<results, fs>>


\* ---- the browser process (behind the library) ------------------------------
Answer(op, ok, img) == channel' = Append(channel, Resp(op, ok, img))

BrowserUnchanged ==
    UNCHANGED <<run, results, fs, fsBefore, pc, busy, inflight, exc, failedStep,
                attempts, done, observer, stdout, exit>>

LaunchOk ==
    /\ Pending("launch")
    /\ browser' = "open"
    /\ Answer("launch", TRUE, <<>>)
    /\ BrowserUnchanged
    /\ UNCHANGED <<releases, nav, pageHeight, emitted, emittedAtShot, shot, waited>>

NewPageOk ==
    /\ Pending("new_page") /\ browser = "open"
    /\ Answer("new_page", TRUE, <<>>)
    /\ BrowserUnchanged
    /\ UNCHANGED <<browser, releases, nav, pageHeight, emitted, emittedAtShot, shot, waited>>

\* the file:// URL resolves: the document starts loading and its scripts run
GotoLoad ==
    /\ Pending("goto") /\ browser = "open" /\ nav = "blank"
    /\ fs[IndexPath].exists
    /\ nav' = "loading"
    /\ pageHeight' \in ViewportHeight..MaxPageHeight
    /\ BrowserUnchanged
    /\ UNCHANGED <<browser, releases, channel, emitted, emittedAtShot, shot, waited>>

\* the load event: goto's completion condition
GotoOk ==
    /\ Pending("goto") /\ browser = "open" /\ nav = "loading"
    /\ nav' = "loaded"
    /\ Answer("goto", TRUE, <<>>)
    /\ BrowserUnchanged
    /\ UNCHANGED <<browser, releases, pageHeight, emitted, emittedAtShot, shot, waited>>

\* console.log in the page: the event travels on the channel
Emit ==
    /\ browser = "open" /\ nav \in {"loading", "loaded"}
    /\ Len(emitted) < MaxMsgs
    /\ \E t \in Texts :
          /\ emitted' = Append(emitted, t)
          /\ channel' = Append(channel, Console(t))
    /\ BrowserUnchanged
    /\ UNCHANGED <<browser, releases, nav, pageHeight, emittedAtShot, shot, waited>>

\* the timer of wait_for_timeout(2000)
Tick ==
    /\ Pending("wait_for_timeout")
    /\ waited < WaitTimeoutMs
    /\ waited' = waited + TickMs
    /\ BrowserUnchanged
    /\ UNCHANGED <<browser, releases, nav, pageHeight, channel, emitted, emittedAtShot, shot>>

WaitOkEarly ==
    /\ Pending("wait_for_timeout")
    /\ Answer("wait_for_timeout", TRUE, <<>>)
    /\ BrowserUnchanged
    /\ UNCHANGED <<browser, releases, nav, pageHeight, emitted, emittedAtShot, shot, waited>>

WaitOk ==
    /\ Pending("wait_for_timeout")
    /\ waited >= WaitTimeoutMs
    /\ Answer("wait_for_timeout", TRUE, <<>>)
    /\ BrowserUnchanged
    /\ UNCHANGED <<browser, releases, nav, pageHeight, emitted, emittedAtShot, shot, waited>>

\* the browser captures the page as it is now
ScreenshotOk ==
    /\ Pending("screenshot") /\ browser = "open"
    /\ shot' = Capture(run, ScreenshotArgs)
    /\ emittedAtShot' = Len(emitted)
    /\ Answer("screenshot", TRUE, shot')
    /\ BrowserUnchanged
    /\ UNCHANGED <<browser, releases, nav, pageHeight, emitted, waited>>

\* browser.close(): the browser process ends
CloseOk ==
    /\ Pending("close") /\ browser = "open"
    /\ browser' = "closed"
    /\ releases' = releases + 1
    /\ Answer("close", TRUE, <<>>)
    /\ BrowserUnchanged
    /\ UNCHANGED <<nav, pageHeight, emitted, emittedAtShot, shot, waited>>

\* any call can fail (launch error, missing file, timeout, crashed target);
\* goto of a missing index.html can only fail
CallFails ==
    /\ \E op \in LibraryCalls :
          /\ Pending(op)
          /\ Answer(op, FALSE, <<>>)
    /\ BrowserUnchanged
    /\ UNCHANGED <<browser, releases, nav, pageHeight, emitted, emittedAtShot, shot, waited>>

\* ---- specification ---------------------------------------------------------
Script ==
    \/ EnterScope
    \/ Launch
    \/ NewPage
    \/ RegisterObserver
    \/ Goto
    \/ WaitForTimeout
    \/ Screenshot
    \/ Close
    \/ Dispatch
    \/ Return
    \/ RaiseFromCall
    \/ ScreenshotWritten
    \/ ScreenshotOpenFails
    \/ ScreenshotWriteFails
    \/ ExitScope
    \/ NextRun

Browser ==
    \/ LaunchOk
    \/ NewPageOk
    \/ GotoLoad
    \/ GotoOk
    \/ Emit
    \/ Tick
    \/ WaitOk
    \/ ScreenshotOk
    \/ CloseOk
    \/ CallFails

Next == Script \/ Browser

Spec == Init /\ [][Next]_vars

\* every step of the script is eventually taken, and the library answers
\* every call (each call has a default timeout)
FairSpec == Spec /\ WF_vars(Script) /\ WF_vars(Browser)

TypeOK ==
    /\ run \in 1..MaxRuns
    /\ pc \in {"sync_playwright", "launch", "new_page", "on", "goto",
               "wait_for_timeout", "screenshot", "close", "__exit__", "exited"}
    /\ busy \in BOOLEAN
    /\ browser \in {"none", "open", "closed"}
    /\ exit \in {"running", "ok", "error"}
    /\ Len(emitted) <= MaxMsgs


\* ---- properties --------------------------------------------------------------
Completed(s) == \E i \in 1..Len(done) : done[i] = s
Position(s) == CHOOSE i \in 1..Len(StepOrder) : StepOrder[i] = s
Exited == pc = "exited"
\* the screenshot call has come back to the script (returned or raised)
\* after the browser captured the page
ShotBack == emittedAtShot >= 0 /\ "screenshot" \notin inflight

\* C1: whenever run() has exited and the launch had succeeded, the browser
\* process has been released, whichever statement raised (or none).
C1_ReleasedOnEveryExit ==
    (Exited /\ Completed("launch")) => browser = "closed"

C1_Witness ==
    Exited /\ Completed("launch") /\ failedStep = "goto" /\ browser = "closed"

\* C2: the browser process is never released twice, and once run() has exited
\* a browser that was launched has been released exactly once, counting the
\* release by browser.close() and the release by the exit of the scope.
C2_ReleasedExactlyOnce ==
    /\ releases <= 1
    /\ (Exited /\ Completed("launch")) => releases = 1
    /\ (browser = "none") => releases = 0

C2_Witness ==
    Exited /\ exit = "ok" /\ Completed("close") /\ releases = 1

\* C3 as stated: a run that failed in launch, new_page, goto, wait_for_timeout
\* or screenshot leaves the output file exactly as it was before the run.
C3_Original ==
    (Exited /\ failedStep \in {"launch", "new_page", "goto", "wait_for_timeout", "screenshot"})
        => fs[OutputPath] = fsBefore[OutputPath]

\* C3 amended: a run that failed before the screenshot statement (driver start,
\* launch, new_page, goto, wait_for_timeout), in particular because index.html
\* is absent, leaves the output file exactly as it was before the run.
C3_NoScreenshotOnEarlyFailure ==
    /\ failedStep \in {"sync_playwright", "launch", "new_page", "goto", "wait_for_timeout"}
          => fs[OutputPath] = fsBefore[OutputPath]
    /\ ~fs[IndexPath].exists => fs[OutputPath] = fsBefore[OutputPath]

C3_Witness ==
    /\ Exited /\ failedStep = "goto" /\ ~fs[IndexPath].exists
    /\ fsBefore[OutputPath].exists /\ fs[OutputPath] = fsBefore[OutputPath]

\* C4: every statement is started at most once per run; after a failure no
\* later statement is started and the run ends with status error; a run
\* without failure ends with status ok.
C4_NoRetryNoRecovery ==
    /\ \A s \in DOMAIN attempts : attempts[s] <= 1
    /\ failedStep # "none" =>
          /\ pc \in {"__exit__", "exited"}
          /\ \A s \in DOMAIN attempts : Position(s) > Position(failedStep) => attempts[s] = 0
    /\ Exited => (exit = "error" <=> failedStep # "none")
    /\ Exited => (exit = "ok" <=> \A s \in DOMAIN attempts : attempts[s] = 1 /\ Completed(s))

C4_Witness ==
    Exited /\ failedStep = "wait_for_timeout" /\ exit = "error" /\ attempts["screenshot"] = 0

\* the characters print() has written for the first k emitted messages
RECURSIVE Expected(_)
Expected(k) == IF k = 0 THEN <<>> ELSE Expected(k - 1) \o FormatLine(emitted[k])

\* standard output cut into lines at the line breaks
RECURSIVE Lines(_)
Lines(s) ==
    IF s = <<>> THEN <<>>
    ELSE IF \E i \in 1..Len(s) : s[i] = "\n"
         THEN LET n == CHOOSE i \in 1..Len(s) :
                          s[i] = "\n" /\ \A j \in 1..(i - 1) : s[j] # "\n"
              IN <<Prefix(s, n - 1)>> \o Lines(SubSeq(s, n + 1, Len(s)))
         ELSE <<s>>

\* C5 as stated: once the screenshot call is back, the i-th line of standard
\* output is "CONSOLE: " followed by the text of the i-th message emitted
\* before the capture.
C5_Original ==
    ShotBack =>
        /\ Len(Lines(stdout)) >= emittedAtShot
        /\ \A i \in 1..emittedAtShot : Lines(stdout)[i] = <<"CONSOLE: ">> \o emitted[i]

\* C5 amended: standard output is always "CONSOLE: <text>" plus a line break
\* for the first k emitted messages, in emission order, each once; once the
\* screenshot call is back, k covers every message emitted before the capture.
C5_ConsoleInOrder ==
    \E k \in 0..Len(emitted) :
        /\ stdout = Expected(k)
        /\ ShotBack => k >= emittedAtShot

C5_Witness ==
    /\ ShotBack /\ emittedAtShot = 2 /\ emitted[1] # emitted[2]
    /\ IsPrefix(Expected(2), stdout)

\* C6: statements complete in program order, none starts before its
\* predecessor completed, the observer is registered before goto starts, the
\* page is captured only after goto completed and 2000 ms of waiting elapsed,
\* and on a run without failure the release comes after the screenshot.
C6_StrictOrder ==
    /\ IsPrefix(done, StepOrder)
    /\ \A s \in DOMAIN attempts : attempts[s] > 0 => Len(done) >= Position(s) - 1
    /\ attempts["goto"] > 0 => observer
    /\ emittedAtShot >= 0 =>
          /\ Completed("goto") /\ nav = "loaded"
          /\ Completed("wait_for_timeout") /\ waited >= WaitTimeoutMs
    /\ (releases > 0 /\ failedStep = "none") => Completed("screenshot")

C6_Witness ==
    pc = "close" /\ emittedAtShot >= 0 /\ waited >= WaitTimeoutMs /\ Completed("screenshot")

\* C7: every run terminates, and a run in which nothing raised ends with
\* status ok, a non-empty file at the output path and the browser released.
C7_TerminatesWithScreenshot ==
    (pc = "sync_playwright") ~>
        (Exited /\ (failedStep = "none" =>
                        /\ exit = "ok"
                        /\ fs[OutputPath].exists
                        /\ Len(fs[OutputPath].data) > 0
                        /\ browser = "closed"))

C7_Witness ==
    /\ Exited /\ failedStep = "none" /\ exit = "ok"
    /\ fs[OutputPath].exists /\ Len(fs[OutputPath].data) > 0 /\ browser = "closed"

C9_SecondRunReplaces ==
    (Exited /\ exit = "ok") =>
        /\ fs[OutputPath].exists
        /\ fs[OutputPath].data = shot
        /\ \A i \in 1..Len(fs[OutputPath].data) : fs[OutputPath].data[i][1] = run

C9_Witness ==
    /\ run = 2 /\ Exited /\ results = <<"ok", "ok">>
    /\ fs[OutputPath].data = shot /\ shot # <<>>

====
